---- MODULE Spec2Model ----
(***************************************************************************)
(* State-machine model of the thermal-logo animation: the canvas component *)
(* (CanvasComponent), the render driver (AppRenderer) and the scene        *)
(* (AppScene).                                                             *)
(*                                                                         *)
(* Numbers.  JavaScript numbers are modelled in fixed point:               *)
(*   - time stamps and deltas in ticks, TicksPerSec ticks to the second    *)
(*     (a time stamp in ms and the delta in s after the division by 1000   *)
(*     are the same number of ticks);                                      *)
(*   - parameters in thousandths (0.95 is 950);                            *)
(*   - smoothed scalars, positions and interpolation factors in 1/Scale;   *)
(*   - heatUp in 1/HeatScale.                                              *)
(* Products are rounded to the nearest unit.                               *)
(* The playback position of the media element is owned by the decoder and  *)
(* is not part of the model.                                               *)
(***************************************************************************)
EXTENDS Integers, Sequences, FiniteSets, TLC

VARIABLES
  thermalControls, \* ApplicationSettings blob stored under 'thermalControls'
  controls,        \* ControlsComponent: whether the dialog exists, its controls
  slider,          \* a Slider of the dialog with its native SeekBar
  canvas,          \* CanvasComponent.canvas
  appScene,        \* CanvasComponent.appScene is defined
  appRenderer,     \* CanvasComponent.appRenderer is defined
  renderer,        \* AppRenderer: the THREE renderer, scene, camera, onUpdate
  lastTime,        \* startRenderLoop: lastTime
  pending,         \* frame callbacks requested from the host and not yet run
  scene,           \* the AppScene object exists
  textureReady, videoReady, debugMode,
  blendVideo, amount, touch, move,
  hold, heatUp, animationTime,
  parameters,
  camera,          \* orthographic extents of AppScene.camera
  heat,            \* the heat mesh: shader variant and uniforms
  drawRenderer,    \* the trail accumulator
  videoTexture, maskTexture,
  frames,          \* number of frame callbacks run so far
  lastFrame,       \* what the last frame callback did
  lastTouch        \* last touch forwarded to the scene since the last frame

compVars == <<canvas, appScene, appRenderer>>
loopVars == <<renderer, lastTime, pending>>
animVars == <<blendVideo, amount, touch, move, hold, heatUp, animationTime>>
resVars  == <<heat, drawRenderer, videoTexture, maskTexture>>
sceneVars == <<scene, textureReady, videoReady, debugMode, animVars,
               parameters, camera, resVars>>
histVars == <<frames, lastFrame, lastTouch>>
settingsVars == <<thermalControls, controls, slider>>
vars == <<settingsVars, compVars, loopVars, sceneVars, histVars>>

----------------------------------------------------------------------------
(* Units and bounds *)

TicksPerSec == 30 * 1000
FrameTicks == TicksPerSec \div 60      \* one frame at 60 frames per second
Scale == 10 * 1000
HeatScale == 100 * 1000
Milli == 10 * 100                 \* parameters are in thousandths

MaxFrames == 2
MaxDisposeCalls == 2

\* Intervals between two frame callbacks: 1/6 ms, 1/60 s, and a stall of 1/20 s.
Intervals == {5, FrameTicks, 3 * FrameTicks}

\* Outcomes of Math.random(), in 1/Scale.
Randoms == {0, Scale \div 2}

----------------------------------------------------------------------------
(* Arithmetic *)

Round(x, d) == (x \div d) + (IF 2 * (x % d) >= d THEN 1 ELSE 0)

Min(a, b) == IF a < b THEN a ELSE b

\* a step that lands on the target
lerpSnap(a, b, t) == b

\* AppScene.lerp
lerp(a, b, t) == a + Round((b - a) * t, Scale)

\* the factor left unclamped
lerpSpeedUnclamped(base, dt) == (base * dt) \div ((Milli * FrameTicks) \div Scale)

\* AppScene.lerpSpeed: base in thousandths, dt in ticks, result in 1/Scale
lerpSpeed(base, dt) ==
  LET n == (base * dt) \div ((Milli * FrameTicks) \div Scale)
  IN  IF n > Scale THEN Scale ELSE IF n < 0 THEN 0 ELSE n

\* THREE.Vector3.lerp on the x and y components (z stays 0)
VecLerp(p, q, t) == [x |-> lerp(p.x, q.x, t), y |-> lerp(p.y, q.y, t)]

----------------------------------------------------------------------------
(* Parameters and persisted settings *)

\* AppScene.parameters as constructed
DefaultParameters ==
  [effectIntensity |-> 1000, contrastPower |-> 800, colorSaturation |-> 1300,
   heatSensitivity |-> 500, videoBlendAmount |-> 1000, gradientShift |-> 0,
   heatDecay |-> 950, interactionRadius |-> 1000, reactivity |-> 1200]

\* AppScene.resetParameters
ResetValues ==
  [effectIntensity |-> 1000, contrastPower |-> 800, colorSaturation |-> 1300,
   heatSensitivity |-> 800, videoBlendAmount |-> 1000, gradientShift |-> 0,
   heatDecay |-> 920, interactionRadius |-> 1500, reactivity |-> 1200]

\* The fields a settings blob may carry (ControlsComponent.controls)
ControlFields == {"effectIntensity", "colorSaturation", "heatSensitivity",
                  "heatDecay", "interactionRadius", "gradientShift"}

\* Slider ranges of the controls dialog, in thousandths
SliderMin == [effectIntensity |-> 0, colorSaturation |-> 0,
              heatSensitivity |-> 100, heatDecay |-> 900,
              interactionRadius |-> 500, gradientShift |-> 0 - 500]
SliderMax == [effectIntensity |-> 3000, colorSaturation |-> 2000,
              heatSensitivity |-> 2000, heatDecay |-> 999,
              interactionRadius |-> 3000, gradientShift |-> 500]

ControlDefaults == [f \in ControlFields |-> DefaultParameters[f]]

\* A blob is missing, is the empty string, is not JSON, or is a JSON object
\* carrying the fields in has with the values val.
NoBlob == [kind |-> "missing",   has |-> {}, val |-> ControlDefaults]
EmptyBlob == [kind |-> "empty", has |-> {}, val |-> ControlDefaults]
BadBlob == [kind |-> "malformed", has |-> {}, val |-> ControlDefaults]
JsonBlob(has, val) == [kind |-> "json", has |-> has, val |-> val]

\* Blobs a previous run may have left behind.
AnimBlobs ==
  {NoBlob, BadBlob,
   JsonBlob(ControlFields,
            [ControlDefaults EXCEPT !.heatSensitivity = 2000,
                                    !.heatDecay = 999,
                                    !.effectIntensity = 0]),
   JsonBlob({"heatSensitivity", "heatDecay"},
            [ControlDefaults EXCEPT !.heatSensitivity = 100,
                                    !.heatDecay = 900])}

Blobs == AnimBlobs \cup {EmptyBlob}

\* controls.f || this.parameters.f
OrDefault(blob, f, current) ==
  IF f \in blob.has /\ blob.val[f] # 0 THEN blob.val[f] ELSE current

\* the fallback replaced by the values of resetParameters
loadControlsOrReset(blob, p) ==
  IF blob.kind = "json"
  THEN [n \in DOMAIN p |->
          IF n \in ControlFields THEN OrDefault(blob, n, p[n]) ELSE p[n]]
  ELSE ResetValues

\* AppScene.loadControlsFromSettings
loadControlsFromSettings(blob, p) ==
  IF blob.kind = "json"
  THEN [n \in DOMAIN p |->
          IF n \in ControlFields THEN OrDefault(blob, n, p[n]) ELSE p[n]]
  ELSE p

----------------------------------------------------------------------------
(* Heat accumulation, AppScene.update *)

MaxHeat == (13 * HeatScale) \div 10      \* 1.3
HeatEps == HeatScale \div Milli          \* 0.001

\* this.heatUp += heatSensitivity * dt * 60
Accumulate(h, sens, dt) == h + (sens * dt) \div ((Milli * FrameTicks) \div HeatScale)

\* the cap left out
CapHeatMissing(h) == h

\* if (this.heatUp > 1.3) this.heatUp = 1.3
CapHeat(h) == IF h > MaxHeat THEN MaxHeat ELSE h

\* the decay applied as a divisor
CoolDivides(h, decay) == Round(h * Milli, decay)

\* this.heatUp *= heatDecay
Cool(h, decay) == Round(h * decay, Milli)

\* the snap left out
SnapHeatMissing(h) == h

\* if (this.heatUp < 0.001) this.heatUp = 0
SnapHeat(h) == IF h < HeatEps THEN 0 ELSE h

\* accumulation in every frame, held or not
HeatHeldAlways(h, held, sens, dt) == CapHeat(Accumulate(h, sens, dt))

\* The value handed to drawRenderer.updateDraw: accumulation runs only
\* while hold is set.
HeatHeld(h, held, sens, dt) ==
  IF held THEN CapHeat(Accumulate(h, sens, dt)) ELSE h

\* cooling placed in the else branch of the hold test
HeatAfterElse(h, held, sens, decay, dt) ==
  IF held THEN HeatHeld(h, held, sens, dt) ELSE SnapHeat(Cool(h, decay))

\* heatUp at the end of update: cooling is applied in every frame.
HeatAfter(h, held, sens, decay, dt) ==
  SnapHeat(Cool(HeatHeld(h, held, sens, dt), decay))

----------------------------------------------------------------------------
(* The render loop, AppRenderer.startRenderLoop *)

DtCap == TicksPerSec \div 30

\* the delta handed on unclamped
ClampDeltaUnclamped(deltaTime) == deltaTime

\* Math.min(deltaTime, 1/30)
ClampDelta(deltaTime) == Min(deltaTime, DtCap)

\* the constructor returning without starting the loop
startRenderLoopMissing(constructed) == 0

\* AppRenderer constructor: this.startRenderLoop() requests the first frame
\* once the THREE renderer is built
startRenderLoop(constructed) == IF constructed THEN 1 ELSE 0

\* the request placed inside the try block: skipped when an error is caught
RequestsInsideTry(path) == IF path = "caught" THEN 0 ELSE 1

\* Number of requestAnimationFrame calls made by one run of loop:
\* one on the early return, one after the try/catch on every other path.
Requests(path) == 1

----------------------------------------------------------------------------
(* Touch events, CanvasComponent.onTouch *)

Actions == {"down", "move", "up", "cancel"}

\* x / clientWidth, in 1/Scale
Normalize(px, extent) == Round(px * Scale, extent)

\* the test on normalizedY left out
IsDebugToggleAnyY(action, nx, ny) == action = "up" /\ nx < Scale \div 10

\* action === "up" && normalizedX < 0.1 && normalizedY < 0.1
IsDebugToggle(action, nx, ny) ==
  action = "up" /\ nx < Scale \div 10 /\ ny < Scale \div 10

\* a move not counted as active
IsActiveDownOnly(action) == action = "down"

\* action === "down" || action === "move"
IsActive(action) == action \in {"down", "move"}

\* the y coordinate left unflipped
TouchTargetUnflipped(nx, ny) == [x |-> (nx - Scale \div 2) * 2,
                                 y |-> (ny - Scale \div 2) * 2]

\* AppScene.updateTouchPosition: centred coordinates, y flipped
TouchTarget(nx, ny) == [x |-> (nx - Scale \div 2) * 2,
                        y |-> 0 - (ny - Scale \div 2) * 2]

\* the point handed to drawRenderer.updatePosition(..., false)
DrawPoint(nx, ny) == [x |-> nx, y |-> Scale - ny]

----------------------------------------------------------------------------
(* Scene objects *)

\* new THREE.OrthographicCamera(-0.5, 0.5, 0.5, -0.5, -1, 1)
InitialCamera == [left |-> 0 - Scale \div 2, right |-> Scale \div 2,
                  top |-> Scale \div 2, bottom |-> 0 - Scale \div 2]

\* the portrait branch left out: the width always carries the ratio
onResizeWidthOnly(width, height) ==
  LET r == Round(width * Scale, height)
  IN  [left |-> 0 - Round(r, 2), right |-> Round(r, 2),
       top |-> Round(Scale, 2), bottom |-> 0 - Round(Scale, 2)]

\* AppScene.onResize
onResize(width, height) ==
  LET r == Round(width * Scale, height)
      a == IF r >= Scale THEN r ELSE Scale
      s == IF r >= Scale THEN Scale ELSE Round(Scale * Scale, r)
  IN  [left |-> 0 - Round(a, 2), right |-> Round(a, 2),
       top |-> Round(s, 2), bottom |-> 0 - Round(s, 2)]

\* The uniforms update writes, as addHeat constructs them
InitialUniforms ==
  [blendVideo |-> 0, opacity |-> Scale, amount |-> 0, power |-> 800,
   rnd |-> 0, effectIntensity |-> 1000, colorSaturation |-> 1300,
   gradientShift |-> 0, interactionSize |-> 1000]

\* this.heat before addHeat: no mesh.  inScene: the mesh is a child of the
\* scene; disposed: its geometry and material have been disposed; leaked:
\* the meshes this.heat referred to earlier that were still in the scene or
\* undisposed when it was reassigned
NoMesh == [variant |-> "none", uniforms |-> InitialUniforms,
           inScene |-> FALSE, disposed |-> FALSE, leaked |-> 0]

\* AppScene.addHeat: the shader variant follows debugMode
addHeat(debug) ==
  [variant |-> IF debug THEN "debug" ELSE "normal", uniforms |-> InitialUniforms,
   inScene |-> TRUE, disposed |-> FALSE, leaked |-> 0]

\* the mesh found is left as it is
DiscardedKept(mesh) == mesh

\* AppScene.toggleDebugMode before its addHeat: the mesh found is removed
\* from the scene and its geometry and material are disposed
Discarded(mesh) ==
  IF mesh.variant = "none" THEN mesh
  ELSE [mesh EXCEPT !.inScene = FALSE, !.disposed = TRUE]

\* this.heat = new THREE.Mesh(...) at the end of addHeat: the mesh it
\* referred to until then is out of reach
Replaced(old, new) ==
  [new EXCEPT !.leaked =
     old.leaked + (IF old.variant # "none" /\ (old.inScene \/ ~old.disposed)
                   THEN 1 ELSE 0)]

\* Uniform writes at the end of AppScene.update
WriteUniforms(mesh, rnd, moveValue, amountValue, p) ==
  IF mesh.variant = "none" THEN mesh
  ELSE [mesh EXCEPT !.uniforms =
          [blendVideo |-> p.videoBlendAmount, opacity |-> moveValue,
           amount |-> amountValue, power |-> p.contrastPower, rnd |-> rnd,
           effectIntensity |-> p.effectIntensity,
           colorSaturation |-> p.colorSaturation,
           gradientShift |-> p.gradientShift,
           interactionSize |-> p.interactionRadius]]

\* The trail accumulator: the last point and heat level it was given (the
\* direction it is given is always zero), and the dispose() calls it received.
NoPoint == [x |-> 0, y |-> 0]
NoDrawRenderer ==
  [exists |-> FALSE, point |-> NoPoint, world |-> FALSE, draw |-> 0,
   disposeCalls |-> 0]
NewDrawRenderer == [NoDrawRenderer EXCEPT !.exists = TRUE]

\* A texture: whether it was created and the dispose() calls it received
NoTexture == [exists |-> FALSE, disposeCalls |-> 0]
NewTexture == [exists |-> TRUE, disposeCalls |-> 0]

\* obj.dispose() behind an existence check
DisposeIfSet(obj) ==
  IF obj.exists THEN [obj EXCEPT !.disposeCalls = @ + 1] ELSE obj

\* AppRenderer before construction
NoRenderer == [exists |-> FALSE, disposeCalls |-> 0, scene |-> FALSE,
               camera |-> FALSE, onUpdate |-> FALSE, width |-> 0, height |-> 0]

\* What a frame callback did: the raw and the clamped delta, the calls it
\* made in order, whether it caught an error, whether the frame before it
\* did, and hold and heatUp as the callback found them.
NoFrame == [raw |-> 0, dt |-> 0, calls |-> <<>>, caught |-> FALSE,
            priorCaught |-> FALSE, held |-> FALSE, heatBefore |-> 0]

\* The canvas of the ready event: client width and height in layout units,
\* the screen scale, and what canvas.getContext("webgl2") does
Viewports == {[clientWidth |-> 200, clientHeight |-> 400, scale |-> 2,
               context |-> "webgl2"]}

\* getContext returns a context, returns null, or throws
Contexts == {"webgl2", "null", "throws"}
Canvases == {[vp EXCEPT !.context = c] : vp \in Viewports, c \in Contexts}

\* onCanvasReady: ctx after the inner try/catch around getContext; an error
\* thrown there is logged and ctx stays null
getContext(vp) == IF vp.context = "webgl2" THEN "webgl2" ELSE "null"

\* context: the ctx handed to setupAppleAnimation
NoCanvas == [exists |-> FALSE, clientWidth |-> 0, clientHeight |-> 0,
             width |-> 0, height |-> 0, context |-> "none"]

\* What the last operation on the slider did: the runs of onProgressChanged
\* and the calls of valueProperty.nativeValueChange among them
NoCalls == [listener |-> 0, reported |-> 0]

\* A Slider before createNativeView, with the defaults of its properties in
\* thousandths (maxValue 100, step 1), and its SeekBar (max 100, progress 0).
\* owner: nativeView.owner is set; supress: _supressNativeValue
NoSlider == [owner |-> FALSE, value |-> 0, minValue |-> 0,
             maxValue |-> 100 * Milli, step |-> Milli,
             max |-> 100, progress |-> 0, supress |-> FALSE, last |-> NoCalls]

\* ControlsComponent before it is constructed
NoControls == [exists |-> FALSE, val |-> ControlDefaults,
               defaults |-> ControlDefaults]

Init ==
  /\ thermalControls \in Blobs
  /\ controls = NoControls
  /\ slider = NoSlider
  /\ canvas = NoCanvas
  /\ appScene = FALSE
  /\ appRenderer = FALSE
  /\ renderer = NoRenderer
  /\ lastTime = 0
  /\ pending = 0
  /\ scene = FALSE
  /\ textureReady = FALSE
  /\ videoReady = FALSE
  /\ debugMode = FALSE
  /\ blendVideo = [value |-> 0, target |-> Scale]
  /\ amount = [value |-> 0, target |-> Scale]
  /\ touch = [position |-> NoPoint, target |-> NoPoint]
  /\ move = [value |-> Scale, target |-> Scale]
  /\ hold = FALSE
  /\ heatUp = 0
  /\ animationTime = 0
  /\ parameters = DefaultParameters
  /\ camera = InitialCamera
  /\ heat = NoMesh
  /\ drawRenderer = NoDrawRenderer
  /\ videoTexture = NoTexture
  /\ maskTexture = NoTexture
  /\ frames = 0
  /\ lastFrame = NoFrame
  /\ lastTouch = "none"

----------------------------------------------------------------------------
(* CanvasComponent.onCanvasReady and setupAppleAnimation, with AppScene.init *)

\* The step of the set-up that throws, in program order: the renderer
\* constructor, the scene constructor, the DrawRenderer constructor, the
\* creation of the video element, video.play(); or none.
SetupFailures == {"renderer", "scene", "drawRenderer", "video", "play", "none"}
Stage == [renderer |-> 1, scene |-> 2, drawRenderer |-> 3, video |-> 4,
          play |-> 5, none |-> 6]

\* step k of the set-up has completed
Done(fail, k) == Stage[fail] > k

OnCanvasReady(vp, fail) ==
  /\ ~canvas.exists
  /\ canvas' = [exists |-> TRUE, clientWidth |-> vp.clientWidth,
                clientHeight |-> vp.clientHeight,
                width |-> vp.clientWidth * vp.scale,
                height |-> vp.clientHeight * vp.scale,
                context |-> getContext(vp)]
  \* new AppRenderer(...): the constructor starts the render loop
  /\ appRenderer' = Done(fail, 1)
  /\ renderer' = [exists |-> Done(fail, 1), disposeCalls |-> 0,
                  scene |-> Done(fail, 2), camera |-> Done(fail, 2),
                  onUpdate |-> Done(fail, 2),
                  width |-> IF Done(fail, 1) THEN vp.clientWidth * vp.scale ELSE 0,
                  height |-> IF Done(fail, 1) THEN vp.clientHeight * vp.scale ELSE 0]
  /\ lastTime' = 0
  /\ pending' = startRenderLoop(Done(fail, 1))
  \* new AppScene(...), then init()
  /\ appScene' = Done(fail, 2)
  /\ scene' = Done(fail, 2)
  /\ parameters' = IF Done(fail, 2)
                   THEN loadControlsFromSettings(thermalControls, parameters)
                   ELSE parameters
  /\ drawRenderer' = IF Done(fail, 3) THEN NewDrawRenderer ELSE drawRenderer
  \* loadAssets: the mask texture, the video element, onVideoReady
  /\ maskTexture' = IF Done(fail, 3) THEN NewTexture ELSE maskTexture
  /\ videoTexture' = IF Done(fail, 4) THEN NewTexture ELSE videoTexture
  /\ videoReady' = Done(fail, 4)
  /\ textureReady' = Done(fail, 4)
  \* addHeat, onResize and the fade-in values
  /\ heat' = IF Done(fail, 5) THEN Replaced(heat, addHeat(debugMode)) ELSE heat
  /\ camera' = IF Done(fail, 5)
               THEN onResize(vp.clientWidth * vp.scale, vp.clientHeight * vp.scale)
               ELSE camera
  /\ amount' = IF Done(fail, 5) THEN [value |-> (3 * Scale) \div 10, target |-> Scale]
               ELSE amount
  /\ blendVideo' = IF Done(fail, 5) THEN [value |-> Scale \div 2, target |-> Scale]
                   ELSE IF Done(fail, 4) THEN [blendVideo EXCEPT !.value = Scale]
                   ELSE blendVideo
  /\ UNCHANGED <<settingsVars, debugMode, touch, move, hold, heatUp,
                 animationTime, histVars>>

----------------------------------------------------------------------------
(* AppRenderer.startRenderLoop: one run of loop, with AppScene.update *)

\* the readiness check left out
UpdateProceedsAlways(ready) == TRUE

\* if (!this.textureReady) return
UpdateProceeds(ready) == ready

\* the reset of hold left out
HoldAfterKept(h) == h

\* this.hold = false
HoldAfter(h) == FALSE

\* a fixed step of 0.05 towards the target
AmountStepLinear(a) ==
  IF a.value < a.target THEN Min(a.value + Scale \div 20, a.target) ELSE a.value

\* the fade-in of amount: lerp with the fixed factor 0.05
AmountStep(a) ==
  IF a.value < a.target THEN lerp(a.value, a.target, Scale \div 20) ELSE a.value

\* Faults a draw pass may raise: none, in the trail pass, in the main pass
Faults == {"none", "trail", "main"}

\* the trail pass left out
TrailPassSkipped(draws, acc) == FALSE

\* if (anyScene.drawRenderer) { resize; render }
TrailPass(draws, acc) == draws /\ acc.exists

\* the main pass issued ahead of the trail pass
LoopCallsMainFirst(called, threw, trailPass, mainPass, fault) ==
  (IF called THEN <<IF threw THEN "updateError" ELSE "update">> ELSE <<>>)
  \o (IF mainPass
      THEN <<IF fault = "main" THEN "mainError" ELSE "main">> ELSE <<>>)
  \o (IF trailPass
      THEN <<IF fault = "trail" THEN "trailError" ELSE "trail">> ELSE <<>>)

\* The calls one run of loop makes, in program order: onUpdate, the trail
\* pass, the main pass
LoopCalls(called, threw, trailPass, mainPass, fault) ==
  (IF called THEN <<IF threw THEN "updateError" ELSE "update">> ELSE <<>>)
  \o (IF trailPass
      THEN <<IF fault = "trail" THEN "trailError" ELSE "trail">> ELSE <<>>)
  \o (IF mainPass
      THEN <<IF fault = "main" THEN "mainError" ELSE "main">> ELSE <<>>)

Frame(interval, rnd, fault) ==
  LET currentTime == lastTime + interval
      deltaTime   == currentTime - lastTime
      dt          == ClampDelta(deltaTime)
      called      == renderer.onUpdate
      threw       == called /\ ~appScene      \* this.appScene!.update(dt)
      runs        == called /\ appScene /\ UpdateProceeds(textureReady)
      draws       == ~threw /\ renderer.scene /\ renderer.camera
      trailPass   == TrailPass(draws, drawRenderer)
      mainPass    == draws /\ fault # "trail"
      caught      == threw \/ (draws /\ fault # "none")
      path        == IF caught THEN "caught"
                     ELSE IF draws THEN "drawn" ELSE "noScene"
      calls       == LoopCalls(called, threw, trailPass, mainPass, fault)
      position    == VecLerp(touch.position, touch.target, lerpSpeed(800, dt))
      moveTarget  == IF hold THEN (95 * Scale) \div 100 ELSE Scale
      moveValue   == lerp(move.value, moveTarget, lerpSpeed(10, dt))
      amountValue == AmountStep(amount)
      held        == HeatHeld(heatUp, hold, parameters.heatSensitivity, dt)
  IN
  /\ pending > 0
  /\ frames < MaxFrames
  /\ fault = "trail" => trailPass
  /\ fault = "main" => draws
  /\ lastTime' = currentTime
  /\ pending' = pending - 1 + Requests(path)
  /\ frames' = frames + 1
  /\ lastFrame' = [raw |-> deltaTime, dt |-> dt, calls |-> calls,
                   caught |-> caught, priorCaught |-> lastFrame.caught,
                   held |-> hold, heatBefore |-> heatUp]
  /\ lastTouch' = "none"
  /\ IF runs
     THEN /\ animationTime' = animationTime + dt
          /\ touch' = [touch EXCEPT !.position = position]
          /\ move' = [value |-> moveValue, target |-> moveTarget]
          /\ amount' = [amount EXCEPT !.value = amountValue]
          /\ drawRenderer' = [drawRenderer EXCEPT !.point = position,
                                                  !.world = TRUE,
                                                  !.draw = held]
          /\ blendVideo' = [blendVideo EXCEPT
                              !.value = lerp(@, blendVideo.target, lerpSpeed(100, dt))]
          /\ heat' = WriteUniforms(heat, rnd, moveValue, amountValue, parameters)
          /\ heatUp' = HeatAfter(heatUp, hold, parameters.heatSensitivity,
                                 parameters.heatDecay, dt)
          /\ hold' = HoldAfter(hold)
     ELSE UNCHANGED <<animVars, heat, drawRenderer>>
  /\ UNCHANGED <<settingsVars, compVars, renderer, scene, textureReady,
                 videoReady, debugMode, parameters, camera, videoTexture,
                 maskTexture>>

----------------------------------------------------------------------------
(* CanvasComponent.onTouch, AppScene.toggleDebugMode, updateTouchPosition *)

\* Pixel coordinates of touch events: inside the top-left corner, at its
\* left edge below the corner, and at the centre of the canvas
TouchPoints == {<<10, 10>>, <<10, 200>>, <<100, 200>>}

\* AppScene.toggleDebugMode: the flag and the mesh it leaves, from those it
\* found.  addHeat reads drawRenderer.getTexture() first: without a trail
\* accumulator it throws before a mesh is built.
AfterToggle(st) ==
  [debugMode |-> ~st.debugMode,
   heat |-> IF drawRenderer.exists
            THEN Replaced(Discarded(st.heat), addHeat(~st.debugMode))
            ELSE Discarded(st.heat)]

toggleDebugMode ==
  LET st == AfterToggle([debugMode |-> debugMode, heat |-> heat])
  IN  /\ debugMode' = st.debugMode
      /\ heat' = st.heat
      /\ UNCHANGED <<touch, hold, drawRenderer, lastTouch>>

\* AppScene.updateTouchPosition.  The call on drawRenderer comes last: when
\* it throws, target and hold are already written.
updateTouchPosition(nx, ny, isActive) ==
  /\ touch' = [touch EXCEPT !.target = TouchTarget(nx, ny)]
  /\ hold' = isActive
  /\ drawRenderer' = IF drawRenderer.exists
                     THEN [drawRenderer EXCEPT !.point = DrawPoint(nx, ny),
                                               !.world = FALSE]
                     ELSE drawRenderer
  /\ lastTouch' = IF isActive THEN "active" ELSE "inactive"
  /\ UNCHANGED <<debugMode, heat>>

OnTouch(action, px, py) ==
  LET nx == Normalize(px, canvas.clientWidth)
      ny == Normalize(py, canvas.clientHeight)
  IN
  /\ IF ~appScene \/ ~canvas.exists
     THEN UNCHANGED <<debugMode, heat, touch, hold, drawRenderer, lastTouch>>
     ELSE IF IsDebugToggle(action, nx, ny)
          THEN toggleDebugMode
          ELSE updateTouchPosition(nx, ny, IsActive(action))
  /\ UNCHANGED <<settingsVars, compVars, loopVars, scene, textureReady,
                 videoReady, blendVideo, amount, move, heatUp, animationTime,
                 parameters, camera, videoTexture, maskTexture, frames,
                 lastFrame>>

\* A release in the corner whose addHeat throws while it builds the material
\* or the mesh: toggleDebugMode has flipped the flag and discarded the mesh
\* it found, this.heat is not reassigned, onTouch catches the error.
OnTouchBuildFailure ==
  /\ appScene /\ canvas.exists
  /\ debugMode' = ~debugMode
  /\ heat' = Discarded(heat)
  /\ UNCHANGED <<settingsVars, compVars, loopVars, scene, textureReady,
                 videoReady, animVars, parameters, camera, drawRenderer,
                 videoTexture, maskTexture, histVars>>

\* Two releases in the corner in succession, no frame in between:
\* toggleDebugMode runs twice.
ToggleTwice ==
  /\ appScene /\ canvas.exists
  /\ LET st == AfterToggle(AfterToggle([debugMode |-> debugMode, heat |-> heat]))
     IN  /\ debugMode' = st.debugMode
         /\ heat' = st.heat
  /\ UNCHANGED <<settingsVars, compVars, loopVars, scene, textureReady,
                 videoReady, animVars, parameters, camera, drawRenderer,
                 videoTexture, maskTexture, histVars>>

----------------------------------------------------------------------------
(* AppRenderer.handleResize, with AppScene.onResize *)

\* Viewport sizes handed to handleResize, in pixels
Sizes == {100, 200, 300, 400, 800}

HandleResize(width, height) ==
  /\ appRenderer
  /\ renderer' = [renderer EXCEPT !.width = width, !.height = height]
  /\ camera' = IF renderer.scene THEN onResize(width, height) ELSE camera
  /\ UNCHANGED <<settingsVars, compVars, lastTime, pending, scene,
                 textureReady, videoReady, debugMode, animVars, parameters,
                 resVars, histVars>>

----------------------------------------------------------------------------
(* Disposal *)

\* AppScene.dispose
SceneDisposed(dr, vt, mt) ==
  [drawRenderer |-> DisposeIfSet(dr), videoTexture |-> DisposeIfSet(vt),
   maskTexture |-> DisposeIfSet(mt)]

\* AppRenderer.dispose
RendererDisposed(r) == DisposeIfSet(r)

CanDisposeScene ==
  /\ drawRenderer.disposeCalls < MaxDisposeCalls
  /\ videoTexture.disposeCalls < MaxDisposeCalls
  /\ maskTexture.disposeCalls < MaxDisposeCalls

\* a direct call of AppScene.dispose()
SceneDispose ==
  /\ scene
  /\ CanDisposeScene
  /\ LET d == SceneDisposed(drawRenderer, videoTexture, maskTexture)
     IN  /\ drawRenderer' = d.drawRenderer
         /\ videoTexture' = d.videoTexture
         /\ maskTexture' = d.maskTexture
  /\ UNCHANGED <<settingsVars, compVars, loopVars, scene, textureReady,
                 videoReady, debugMode, animVars, parameters, camera, heat,
                 histVars>>

\* a direct call of AppRenderer.dispose()
RendererDispose ==
  /\ renderer.exists
  /\ renderer.disposeCalls < MaxDisposeCalls
  /\ renderer' = RendererDisposed(renderer)
  /\ UNCHANGED <<settingsVars, compVars, lastTime, pending, sceneVars,
                 histVars>>

\* CanvasComponent.ngOnDestroy
NgOnDestroy ==
  /\ appScene \/ appRenderer
  /\ appScene => CanDisposeScene
  /\ appRenderer => renderer.disposeCalls < MaxDisposeCalls
  /\ LET d == IF appScene
              THEN SceneDisposed(drawRenderer, videoTexture, maskTexture)
              ELSE [drawRenderer |-> drawRenderer, videoTexture |-> videoTexture,
                    maskTexture |-> maskTexture]
     IN  /\ drawRenderer' = d.drawRenderer
         /\ videoTexture' = d.videoTexture
         /\ maskTexture' = d.maskTexture
  /\ renderer' = IF appRenderer THEN RendererDisposed(renderer) ELSE renderer
  /\ appScene' = FALSE
  /\ appRenderer' = FALSE
  /\ UNCHANGED <<settingsVars, canvas, lastTime, pending, scene,
                 textureReady, videoReady, debugMode, animVars, parameters,
                 camera, heat, histVars>>

----------------------------------------------------------------------------
(* ControlsComponent *)

\* ControlsComponent.loadControls: { ...this.controls, ...JSON.parse(saved) }
loadControls(blob, c) ==
  IF blob.kind = "json"
  THEN [f \in ControlFields |-> IF f \in blob.has THEN blob.val[f] ELSE c[f]]
  ELSE c

\* ControlsComponent.saveControls: JSON.stringify(this.controls)
saveControlsStale(c) == JsonBlob(ControlFields, ControlDefaults)
saveControls(c) == JsonBlob(ControlFields, c)

\* ApplicationSettings.setString under saveControls' try/catch: when the
\* store throws, the blob stays as it was
setString(stored, blob) == IF stored THEN blob ELSE thermalControls

\* What a blob decodes to: the fields it carries with their values (none
\* unless it is JSON)
Decoded(blob) == [f \in blob.has |-> blob.val[f]]

\* The sliders moved in the dialog, each to either end of its range
MovedSliders == {"effectIntensity", "heatDecay"}

\* the copy taken from the loaded controls
defaultsAfterLoad(initial, loaded) == loaded

\* private defaults = { ...this.controls }: a field initialiser, run ahead
\* of the constructor body and so of loadControls
defaults(initial, loaded) == initial

\* the constructor of ControlsComponent
ControlsOpen ==
  /\ ~controls.exists
  /\ LET loaded == loadControls(thermalControls, ControlDefaults)
     IN  controls' = [exists |-> TRUE, val |-> loaded,
                      defaults |-> defaults(ControlDefaults, loaded)]
  /\ UNCHANGED <<thermalControls, slider, compVars, loopVars, sceneVars, histVars>>

\* onEffectIntensityChange ... onGradientShiftChange
OnControlChange(name, value, stored) ==
  /\ controls.exists
  /\ LET c == [controls.val EXCEPT ![name] = value]
     IN  /\ controls' = [controls EXCEPT !.val = c]
         /\ thermalControls' = setString(stored, saveControls(c))
  /\ UNCHANGED <<slider, compVars, loopVars, sceneVars, histVars>>

\* ControlsComponent.resetToDefaults
ResetToDefaults(stored) ==
  /\ controls.exists
  /\ controls' = [controls EXCEPT !.val = controls.defaults]
  /\ thermalControls' = setString(stored, saveControls(controls.defaults))
  /\ UNCHANGED <<slider, compVars, loopVars, sceneVars, histVars>>

\* ControlsComponent.onBack: the dialog closes and the component goes away
OnBack ==
  /\ controls.exists
  /\ controls' = NoControls
  /\ UNCHANGED <<thermalControls, slider, compVars, loopVars, sceneVars, histVars>>

----------------------------------------------------------------------------
(* Parameters *)

\* Values a caller passes to setParameter: the ends of the slider ranges
ParameterValues(name) == {SliderMin[name], SliderMax[name]}
TunedParameters == {"heatSensitivity", "heatDecay"}

\* AppScene.setParameter
SetParameter(name, value) ==
  /\ scene
  /\ parameters' = [parameters EXCEPT ![name] = value]
  /\ UNCHANGED <<settingsVars, compVars, loopVars, scene, textureReady,
                 videoReady, debugMode, animVars, camera, resVars, histVars>>

\* AppScene.resetParameters
ResetParameters ==
  /\ scene
  /\ parameters' = ResetValues
  /\ UNCHANGED <<settingsVars, compVars, loopVars, scene, textureReady,
                 videoReady, debugMode, animVars, camera, resVars, histVars>>

----------------------------------------------------------------------------

(* Slider (Android) *)

\* the flag not consulted
onProgressChangedUnsuppressed(sl, progress) ==
  IF sl.owner
  THEN [sl EXCEPT !.value = sl.minValue + progress * sl.step,
                  !.last = [listener |-> @.listener + 1,
                            reported |-> @.reported + 1]]
  ELSE [sl EXCEPT !.last.listener = @ + 1]

\* SeekBarChangeListenerImpl.onProgressChanged: unless suppressed, the
\* owner's value becomes minValue + progress * step (toFixed(10) leaves a
\* whole number of thousandths as it is)
onProgressChanged(sl, progress) ==
  IF sl.owner /\ ~sl.supress
  THEN [sl EXCEPT !.value = sl.minValue + progress * sl.step,
                  !.last = [listener |-> @.listener + 1,
                            reported |-> @.reported + 1]]
  ELSE [sl EXCEPT !.last.listener = @ + 1]

\* nativeView.setMax: a new maximum pulls the progress down to it and
\* runs the listener
setMax(sl, m) ==
  LET top == IF m < 0 THEN 0 ELSE m
      p   == Min(sl.progress, top)
  IN  IF top = sl.max THEN sl
      ELSE onProgressChanged([sl EXCEPT !.max = top, !.progress = p], p)

\* nativeView.setProgress: the progress is kept within 0..max; a change
\* runs the listener
setProgress(sl, progress) ==
  LET p == IF progress < 0 THEN 0 ELSE Min(progress, sl.max)
  IN  IF p = sl.progress THEN sl
      ELSE onProgressChanged([sl EXCEPT !.progress = p], p)

\* Native calls that may throw inside setNativeValuesSilently
SliderFaults == {"none", "setMax", "setProgress"}

\* Slider.setNativeValuesSilently: the flag is set, setMax and setProgress
\* are called with the range and the value in steps, and the finally block
\* clears the flag whether or not a call threw
setNativeValuesSilently(sl, fault) ==
  LET s0 == [sl EXCEPT !.supress = TRUE, !.last = NoCalls]
      s1 == IF fault = "setMax" THEN s0
            ELSE setMax(s0, Round(s0.maxValue - s0.minValue, s0.step))
      s2 == IF fault \in {"setMax", "setProgress"} THEN s1
            ELSE setProgress(s1, Round(s1.value - s1.minValue, s1.step))
  IN  [s2 EXCEPT !.supress = FALSE]

\* Values the dialog's template gives the properties, in thousandths
SliderProperties == {"value", "minValue", "maxValue", "step"}
PropertyValues ==
  [value |-> {0, 500}, minValue |-> {0 - 500, 0},
   maxValue |-> {500, 3000}, step |-> {50, 100}]

\* Positions a user drags the thumb to
DragProgress == {0, 5, 20}

\* createNativeView and initNativeView: the SeekBar exists, its owner is set
\* and the listener is attached
InitNativeView ==
  /\ ~slider.owner
  /\ slider' = [slider EXCEPT !.owner = TRUE, !.last = NoCalls]
  /\ UNCHANGED <<thermalControls, controls, compVars, loopVars, sceneVars,
                 histVars>>

\* [valueProperty.setNative] ... [stepProperty.setNative]: a property was
\* assigned by the program
SetNative(property, v, fault) ==
  /\ slider.owner
  /\ slider' = setNativeValuesSilently([slider EXCEPT ![property] = v], fault)
  /\ UNCHANGED <<thermalControls, controls, compVars, loopVars, sceneVars,
                 histVars>>

\* the user moves the thumb: the SeekBar changes its progress and runs the
\* listener
Drag(progress) ==
  /\ slider.owner
  /\ progress <= slider.max
  /\ progress # slider.progress
  /\ slider' = onProgressChanged([slider EXCEPT !.progress = progress,
                                                !.last = NoCalls], progress)
  /\ UNCHANGED <<thermalControls, controls, compVars, loopVars, sceneVars,
                 histVars>>

\* Slider.resetNativeView: setMax(100) and setProgress(0), the flag not set
ResetNativeView ==
  /\ slider.owner
  /\ slider' = setProgress(setMax([slider EXCEPT !.last = NoCalls], 100), 0)
  /\ UNCHANGED <<thermalControls, controls, compVars, loopVars, sceneVars,
                 histVars>>

\* Slider.disposeNativeView: the owner is cleared
DisposeNativeView ==
  /\ slider.owner
  /\ slider' = [slider EXCEPT !.owner = FALSE, !.last = NoCalls]
  /\ UNCHANGED <<thermalControls, controls, compVars, loopVars, sceneVars,
                 histVars>>

----------------------------------------------------------------------------

\* The canvas component with its render driver and scene: set-up with
\* every failure, frames with faulty draw passes, touches at the centre,
\* disposal.  The settings store is empty.
LoopActions == {"down", "up"}
LoopPoints == {<<100, 200>>}

InitLoop == Init /\ thermalControls = NoBlob

Next ==
  \/ \E vp \in Viewports, fail \in SetupFailures : OnCanvasReady(vp, fail)
  \/ \E interval \in Intervals, rnd \in Randoms, fault \in Faults :
       Frame(interval, rnd, fault)
  \/ \E action \in LoopActions, pt \in LoopPoints : OnTouch(action, pt[1], pt[2])
  \/ SceneDispose
  \/ RendererDispose
  \/ NgOnDestroy

Spec == InitLoop /\ [][Next]_vars

\* The scene's animation state: every stored blob, every touch event,
\* frames whose draw passes succeed.
AnimFailures == {"video", "play", "none"}

\* Math.random() is left at one outcome here: it reaches only the rnd uniform
AnimRandoms == {Scale \div 2}

NextAnim ==
  \/ \E vp \in Viewports, fail \in AnimFailures : OnCanvasReady(vp, fail)
  \/ \E interval \in Intervals, rnd \in AnimRandoms : Frame(interval, rnd, "none")
  \/ \E action \in Actions, pt \in TouchPoints : OnTouch(action, pt[1], pt[2])

InitAnim == Init /\ thermalControls \in AnimBlobs

SpecAnim == InitAnim /\ [][NextAnim]_vars

\* The touch surface: every touch event on a component whose set-up failed
\* before the scene existed, stopped at the video element, or completed;
\* frames at the nominal rate.
TouchFailures == {"renderer", "video", "none"}

NextTouch ==
  \/ \E vp \in Viewports, fail \in TouchFailures : OnCanvasReady(vp, fail)
  \/ \E rnd \in AnimRandoms : Frame(FrameTicks, rnd, "none")
  \/ \E action \in Actions, pt \in TouchPoints : OnTouch(action, pt[1], pt[2])
  \/ ToggleTwice
  \/ OnTouchBuildFailure

SpecTouch == InitLoop /\ [][NextTouch]_vars

\* The set-up over every outcome of getContext and every failing step,
\* followed by frames at the nominal rate with faulty draw passes and by
\* presses and releases.  With a null
\* context THREE.WebGLRenderer either throws or builds a context of its own.
NextSetup ==
  \/ \E vp \in Canvases, fail \in SetupFailures : OnCanvasReady(vp, fail)
  \/ \E rnd \in AnimRandoms, fault \in Faults : Frame(FrameTicks, rnd, fault)
  \/ \E action \in LoopActions, pt \in TouchPoints :
       OnTouch(action, pt[1], pt[2])

SpecSetup == InitLoop /\ [][NextSetup]_vars

\* The clock: frame callbacks whose timestamp stands still, runs backwards,
\* advances by 1/60 s or stalls for 1/20 s, with presses and releases at the
\* corners and the centre of the canvas.
ClockIntervals == {0 - FrameTicks, 0, FrameTicks, 3 * FrameTicks}
EdgePoints == {<<0, 0>>, <<200, 400>>, <<100, 200>>}

NextClock ==
  \/ \E vp \in Viewports : OnCanvasReady(vp, "none")
  \/ \E interval \in ClockIntervals, rnd \in AnimRandoms :
       Frame(interval, rnd, "none")
  \/ \E action \in LoopActions, pt \in EdgePoints : OnTouch(action, pt[1], pt[2])

SpecClock == InitLoop /\ [][NextClock]_vars

\* A slider of the dialog: its properties assigned by the program, with
\* native calls that throw, and its thumb dragged by the user.
NextSlider ==
  \/ InitNativeView
  \/ \E property \in SliderProperties :
       \E v \in PropertyValues[property], fault \in SliderFaults :
         SetNative(property, v, fault)
  \/ \E progress \in DragProgress : Drag(progress)
  \/ ResetNativeView
  \/ DisposeNativeView

SpecSlider == InitLoop /\ [][NextSlider]_vars

\* Resizing: the viewport changes between frames; the set-up fails before
\* the scene exists or completes.
ResizeFailures == {"scene", "none"}

NextResize ==
  \/ \E vp \in Viewports, fail \in ResizeFailures : OnCanvasReady(vp, fail)
  \/ \E rnd \in AnimRandoms : Frame(FrameTicks, rnd, "none")
  \/ \E width \in Sizes, height \in Sizes : HandleResize(width, height)

SpecResize == InitLoop /\ [][NextResize]_vars

\* Settings: every stored blob, the controls dialog, the scene's parameter
\* setters; the set-up fails before the scene exists or completes.
NextSettings ==
  \/ \E vp \in Viewports, fail \in ResizeFailures : OnCanvasReady(vp, fail)
  \/ \E rnd \in AnimRandoms : Frame(FrameTicks, rnd, "none")
  \/ ControlsOpen
  \/ \E name \in MovedSliders : \E value \in ParameterValues(name) :
       \E stored \in BOOLEAN : OnControlChange(name, value, stored)
  \/ \E stored \in BOOLEAN : ResetToDefaults(stored)
  \/ OnBack
  \/ \E name \in TunedParameters : \E value \in ParameterValues(name) :
       SetParameter(name, value)
  \/ ResetParameters

SpecSettings == Init /\ [][NextSettings]_vars

----------------------------------------------------------------------------
(* Properties *)

\* a step that runs one frame callback
FrameStep == frames' = frames + 1

\* a frame callback whose onUpdate reaches AppScene.update
UpdateCalled == FrameStep /\ renderer.onUpdate /\ appScene

\* a frame callback whose update finds the textures ready
UpdateRan == UpdateCalled /\ textureReady

UpdateAttempted(f) ==
  Len(f.calls) > 0 /\ f.calls[1] \in {"update", "updateError"}

\* C1: whatever the interval since the previous callback (first frame and
\* stall included), the delta handed to the update callback is at most 1/30 s.
C1_DeltaNeverExceedsCap ==
  UpdateAttempted(lastFrame) => 30 * lastFrame.dt <= TicksPerSec

\* a first frame that arrived after more than 1/30 s and was clamped
C1_FirstFrameClamped ==
  /\ frames = 1
  /\ UpdateAttempted(lastFrame)
  /\ 30 * lastFrame.raw > TicksPerSec
  /\ 30 * lastFrame.dt = TicksPerSec

\* C2: heatUp is never above 1.3 nor below 0, and it is exactly 0 or at
\* least 0.001 (it only changes in ready update frames).
C2_HeatWithinBounds ==
  /\ heatUp >= 0
  /\ 10 * heatUp <= 13 * HeatScale
  /\ heatUp = 0 \/ 1000 * heatUp >= HeatScale

\* a held frame that ran into the cap: 1.3 times the decay is left
C2_HeatCappedInFrame ==
  /\ lastFrame.held
  /\ heatUp > HeatScale
  /\ 10 * Milli * heatUp <= 13 * HeatScale * parameters.heatDecay + 10 * Milli
  /\ 10 * Milli * heatUp >= 13 * HeatScale * parameters.heatDecay - 10 * Milli

\* C6: every run of the frame callback, also one in which update or a draw
\* pass throws, leaves exactly one successor scheduled, and the frame after
\* a faulty one attempts update again.
C6_LoopSurvivesErrors ==
  [][FrameStep =>
       /\ pending' = 1
       /\ (renderer.onUpdate => UpdateAttempted(lastFrame'))]_vars

\* a frame that followed a faulty frame ran update and both draw passes,
\* and its successor is scheduled
C6_FrameAfterFault ==
  /\ lastFrame.priorCaught
  /\ lastFrame.calls = <<"update", "trail", "main">>
  /\ pending = 1

\* C9: while the textures are not ready a frame's update changes nothing:
\* clock, touch, smoothed scalars, heatUp, hold, the uniforms and the trail
\* accumulator stay as they are.
C9_NotReadyUpdateIsNoOp ==
  [][UpdateCalled /\ ~textureReady =>
       UNCHANGED <<animationTime, touch, move, amount, blendVideo, heatUp,
                   hold, heat, drawRenderer>>]_vars

\* update was called on a scene that never became ready, with a touch held
C9_NotReadyFrame ==
  /\ frames > 0
  /\ scene /\ ~textureReady
  /\ lastFrame.calls[1] = "update"
  /\ hold

\* the heat a frame adds while held: heatSensitivity * dt * 60
HeatGain(dt) ==
  (parameters.heatSensitivity * dt * (HeatScale \div Milli)) \div FrameTicks

\* h is x / Milli rounded, or 0 where that is below 0.001
CooledFrom(h, x) ==
  \/ h = 0 /\ x < HeatScale
  \/ h > 0 /\ Milli * h - x <= Milli /\ x - Milli * h <= Milli

\* heatUp after n held frames in a row at 1/60 s from cold, with the
\* constructed parameters
HeldFrames[n \in 0..30] ==
  IF n = 0 THEN 0
  ELSE HeatAfter(HeldFrames[n - 1], TRUE, DefaultParameters.heatSensitivity,
                 DefaultParameters.heatDecay, FrameTicks)

\* heatUp after thirty such frames
ThirtyHeldFrames == HeldFrames[30]

Accumulated == drawRenderer'.draw > heatUp

\* C5 as stated: every update resets hold.
C5_EveryUpdateReleases ==
  [][UpdateCalled => hold' = FALSE]_vars

\* C5 as amended: every update that finds the textures ready resets hold
\* (before that update returns early and hold stays as the last touch left
\* it); heat is accumulated only in a frame whose last touch forwarded to
\* updateTouchPosition since the frame before was active, so without such a
\* touch the frame after a held one is released.
C5_ReadyUpdateReleases ==
  [][/\ (UpdateRan => hold' = FALSE)
      /\ (UpdateCalled /\ Accumulated => textureReady /\ lastTouch = "active")
      /\ (UpdateRan /\ lastTouch # "active" => ~hold)]_vars

\* a held frame has run on a ready scene and left hold reset
C5_ReleasedAfterHeldFrame ==
  /\ lastFrame.held
  /\ lastFrame.calls[1] = "update"
  /\ textureReady
  /\ heatUp > 0
  /\ ~hold

\* C7: once dispose() was called on the scene or the renderer, a frame
\* callback that still fires calls neither update nor a draw pass, raises no
\* error and schedules no successor.
Disposed ==
  \/ drawRenderer.disposeCalls > 0 \/ videoTexture.disposeCalls > 0
  \/ maskTexture.disposeCalls > 0 \/ renderer.disposeCalls > 0
C7_NoFrameAfterDispose ==
  [][FrameStep /\ Disposed =>
       /\ lastFrame'.calls = <<>>
       /\ ~lastFrame'.caught
       /\ pending' = 0]_vars

\* C8: a second dispose() of the scene or of the renderer changes nothing
\* and releases no resource again.
C8_DisposeIdempotent ==
  [][/\ (SceneDispose /\ Disposed =>
            UNCHANGED <<drawRenderer, videoTexture, maskTexture>>)
      /\ (RendererDispose /\ renderer.disposeCalls > 0 =>
            UNCHANGED renderer)]_vars

\* the event is inside the top-left tenth of the canvas in both directions
InCorner(px, py) == 10 * px < canvas.clientWidth /\ 10 * py < canvas.clientHeight

Toggled == debugMode' # debugMode

\* C10 as stated: every corner event that is not active toggles debug mode
\* and leaves the touch target and hold alone.
C10_InactiveCornerToggles ==
  [][\A a \in Actions, pt \in TouchPoints :
       (/\ appScene /\ canvas.exists
        /\ InCorner(pt[1], pt[2]) /\ a \notin {"down", "move"}
        /\ OnTouch(a, pt[1], pt[2]))
       => (Toggled /\ UNCHANGED <<touch, hold>>)]_vars

\* C10 as amended: with the scene and canvas in place, a touch event toggles
\* debug mode exactly if its action is "up" and it lies in the corner; the
\* toggle leaves the touch target and hold alone; a corner event with any
\* other action is forwarded as an ordinary touch; nothing else toggles.
C10_CornerUpToggles ==
  [][/\ \A e \in Actions, p \in TouchPoints :
          (appScene /\ canvas.exists /\ frames' = frames /\ OnTouch(e, p[1], p[2])) =>
            /\ (Toggled <=> (e = "up" /\ InCorner(p[1], p[2])))
            /\ (Toggled => UNCHANGED <<touch, hold>>)
            /\ (~Toggled =>
                  /\ touch'.target =
                       TouchTarget(Normalize(p[1], canvas.clientWidth),
                                   Normalize(p[2], canvas.clientHeight))
                  /\ hold' = (e \in {"down", "move"}))
      /\ (Toggled => \E a \in Actions, pt \in TouchPoints :
                       OnTouch(a, pt[1], pt[2]))]_vars

\* debug mode was switched on by a corner release while a touch was held
C10_ToggledWhileHeld ==
  /\ debugMode
  /\ heat.variant = "debug"
  /\ hold
  /\ lastTouch = "active"

\* C11: with the scene and canvas in place, every touch event that is not a
\* debug toggle sets the touch target to ((x - 0.5) * 2, -(y - 0.5) * 2), so
\* the centre maps to (0, 0), and sets hold to whether the action is down or
\* move; the smoothed position is left to the next frame.
C11_TouchSetsTargetAndHold ==
  [][\A e \in Actions, p \in TouchPoints :
       LET x == Normalize(p[1], canvas.clientWidth)
           y == Normalize(p[2], canvas.clientHeight)
       IN  (/\ appScene /\ canvas.exists
            /\ frames' = frames
            /\ ~(e = "up" /\ InCorner(p[1], p[2]))
            /\ OnTouch(e, p[1], p[2]))
           => /\ touch'.target = [x |-> 2 * x - Scale, y |-> Scale - 2 * y]
              /\ (2 * x = Scale /\ 2 * y = Scale => touch'.target = NoPoint)
              /\ hold' = (e \in {"down", "move"})
              /\ touch'.position = touch.position]_vars

\* a touch went down inside the corner: the target is (-0.9, 0.95), held
C11_CornerDownForwarded ==
  /\ hold
  /\ lastTouch = "active"
  /\ 100 * touch.target.x = 0 - 90 * Scale
  /\ 100 * touch.target.y = 95 * Scale

\* C12: two calls of toggleDebugMode in succession leave debugMode, the
\* animation state and every uniform value as they were.
C12_ToggleTwiceRestores ==
  [][ToggleTwice =>
       /\ UNCHANGED <<debugMode, animVars>>
       /\ heat'.uniforms = heat.uniforms]_vars

\* width and height of the camera's view
Horizontal(c) == c.right - c.left
Vertical(c) == c.top - c.bottom

\* units by which a/b may differ from the extent computed for it: one
\* rounding of the ratio, magnified by the reciprocal, and the halving
Tolerance(a, b) == 2 + (a * a) \div (b * b)

\* C13: after onResize(width, height) the extent along the shorter viewport
\* axis is 1 and the other is width/height or height/width, so horizontal
\* over vertical is width/height: exactly where the ratio is a whole number
\* of units, within rounding elsewhere.
C13_ResizeKeepsAspect ==
  [][\A width \in Sizes, height \in Sizes :
       (HandleResize(width, height) /\ renderer.scene) =>
         LET h == Horizontal(camera')
             v == Vertical(camera')
         IN  /\ (width >= height =>
                   /\ v = Scale
                   /\ h * height - width * Scale <= Tolerance(1, 1) * height
                   /\ width * Scale - h * height <= Tolerance(1, 1) * height
                   /\ ((width * Scale) % (2 * height) = 0 =>
                         h * height = v * width))
             /\ (width < height =>
                   /\ h = Scale
                   /\ v * width - height * Scale <= Tolerance(height, width) * width
                   /\ height * Scale - v * width <= Tolerance(height, width) * width
                   /\ ((width * Scale) % height = 0
                          /\ (height * Scale) % (2 * width) = 0 =>
                         h * height = v * width))]_vars

\* a resize to 100 x 800 on top of a scene set up at 400 x 800: the view is
\* 1 wide and 8 high
C13_PortraitResized ==
  /\ scene
  /\ renderer.width = 100 /\ renderer.height = 800
  /\ Horizontal(camera) = Scale
  /\ Vertical(camera) = 8 * Scale

\* amount.value after n ready frames from the 0.3 that init leaves
FadeFrames[n \in 0..60] ==
  IF n = 0 THEN (3 * Scale) \div 10
  ELSE AmountStep([value |-> FadeFrames[n - 1], target |-> Scale])

SixtyFadeFrames == FadeFrames[60]

\* the epsilon of the fade-in test: 0.01
AmountEps == Scale \div 100

\* C14 as stated: after 60 frames amount.value is within epsilon of 1.
C14_AmountReachesOne ==
  frames >= 0 => Scale - SixtyFadeFrames <= AmountEps

\* C14 as amended: every ready frame, whatever its dt, closes one twentieth
\* of the distance between amount.value and 1, so the value rises without
\* reaching 1; after 60 frames from 0.3 it is 1 - 0.7 * 0.95^60, about
\* 0.968, still more than 0.03 short of 1.
C14_AmountApproachesOne ==
  [][/\ (UpdateRan =>
            /\ 20 * (Scale - amount'.value) - 19 * (Scale - amount.value) <= 10
            /\ 19 * (Scale - amount.value) - 20 * (Scale - amount'.value) <= 10
            /\ amount'.value > amount.value
            /\ amount'.value < Scale
            /\ amount'.target = Scale)
      /\ 100 * SixtyFadeFrames > 96 * Scale
      /\ 100 * SixtyFadeFrames < 97 * Scale]_vars

\* two ready frames after init: amount.value went 0.3, 0.335, 0.368
C14_TwoFramesFaded ==
  /\ frames = 2
  /\ textureReady
  /\ heat.variant = "normal"
  /\ amount.value = FadeFrames[2]
  /\ 1000 * amount.value > 368 * Scale
  /\ 1000 * amount.value < 369 * Scale

\* C15: heatUp starts at 0 with hold clear; a step that starts with heatUp 0
\* and hold clear leaves heatUp 0, whatever the dt and the parameters; and
\* hold is only ever set by a down or move event that is forwarded to the
\* scene.  So until an active touch is delivered heatUp is 0 after every
\* frame, inactive touches and debug toggles included.
C15_ColdWithoutActiveTouch ==
  /\ heatUp = 0 /\ ~hold
  /\ [][/\ (heatUp = 0 /\ ~hold => heatUp' = 0)
        /\ (~hold /\ hold' =>
              /\ lastTouch' = "active"
              /\ \E e \in {"down", "move"}, p \in TouchPoints :
                    OnTouch(e, p[1], p[2]))]_vars

\* two ready frames at the highest sensitivity, an inactive touch forwarded
\* from the corner and debug mode toggled on: heatUp is 0
C15_ColdAfterInactiveTouch ==
  /\ frames = 2
  /\ textureReady
  /\ lastFrame.calls[1] = "update"
  /\ lastFrame.heatBefore = 0
  /\ parameters.heatSensitivity = SliderMax.heatSensitivity
  /\ debugMode
  /\ touch.target # NoPoint
  /\ touch.position # NoPoint
  /\ ~hold
  /\ heatUp = 0

\* Pairs of frames looked at after a release
CoolSpan == 80

\* heatUp after one more released frame with the constructed heatDecay 0.95
CoolOnce(h) ==
  HeatAfter(h, FALSE, DefaultParameters.heatSensitivity,
            DefaultParameters.heatDecay, FrameTicks)

\* heatUp after 2 * n released frames from the cap 1.3 (previous is never
\* negative)
CoolFrames[n \in 0..CoolSpan] ==
  IF n = 0 THEN MaxHeat
  ELSE LET previous == CoolFrames[n - 1]
       IN  IF previous < 0 THEN previous ELSE CoolOnce(CoolOnce(previous))

\* from the cap, heatUp falls strictly until some frame leaves exactly 0,
\* and is 0 in every frame after that
CoolsToZero ==
  \E n \in 1..CoolSpan :
    /\ \A k \in 0..(n - 1) :
         /\ CoolFrames[k] > CoolOnce(CoolFrames[k])
         /\ CoolOnce(CoolFrames[k]) >= CoolFrames[k + 1]
         /\ CoolFrames[k] > CoolFrames[k + 1]
    /\ \A k \in n..CoolSpan :
         CoolFrames[k] = 0 /\ CoolOnce(CoolFrames[k]) = 0

\* C16: in a ready frame that finds hold clear, positive heatUp falls
\* strictly, by the factor heatDecay, to a value that is 0 or at least
\* 0.001, and heatUp 0 stays 0; so heatUp reaches exactly 0 after finitely
\* many released frames (from the cap, with decay 0.95, within twice
\* CoolSpan frames) and stays there.
C16_ReleasedHeatDecaysToZero ==
  [][/\ (UpdateRan /\ ~hold =>
            /\ (heatUp > 0 => heatUp' < heatUp)
            /\ parameters.heatDecay < Milli
            /\ Milli * heatUp' <= parameters.heatDecay * heatUp + Milli
            /\ (heatUp' = 0 \/ heatUp' >= HeatEps)
            /\ (heatUp = 0 => heatUp' = 0))
      /\ CoolsToZero]_vars

\* a released frame after a held one: heatUp fell and is still positive
C16_ReleasedFrameCooled ==
  /\ frames = 2
  /\ ~lastFrame.held
  /\ lastFrame.calls[1] = "update"
  /\ lastFrame.heatBefore > heatUp
  /\ heatUp > 0
  /\ ~hold

\* C17: with a missing, empty or malformed blob a set-up in which nothing
\* else fails completes: the scene is marked ready, the mesh is built and
\* every parameter has its constructed value.
C17_BadBlobKeepsDefaults ==
  [][\A vp \in Viewports :
       (/\ thermalControls.kind \in {"missing", "empty", "malformed"}
        /\ OnCanvasReady(vp, "none"))
       => /\ scene' /\ textureReady' /\ videoReady'
          /\ heat'.variant = "normal"
          /\ parameters' = DefaultParameters]_vars

\* a scene set up over a malformed blob has run a full frame
C17_ReadyOverMalformedBlob ==
  /\ thermalControls = BadBlob
  /\ scene /\ textureReady
  /\ parameters = DefaultParameters
  /\ frames = 1
  /\ lastFrame.calls = <<"update", "trail", "main">>

\* C18: after a set-up over a well-formed blob each persisted parameter has
\* the value the blob stores for it, 0 included, and the constructed value
\* where the blob lacks the field.
C18_BlobLoadedFieldByField ==
  [][\A vp \in Viewports :
       (thermalControls.kind = "json" /\ OnCanvasReady(vp, "none"))
       => \A f \in ControlFields :
            parameters'[f] = IF f \in thermalControls.has
                             THEN thermalControls.val[f]
                             ELSE DefaultParameters[f]]_vars

\* a slider handler or the reset of the dialog, its save succeeding
DialogMutation ==
  \/ \E name \in MovedSliders : \E value \in ParameterValues(name) :
       OnControlChange(name, value, TRUE)
  \/ ResetToDefaults(TRUE)

\* setParameter or resetParameters on the scene
SceneMutation ==
  \/ \E name \in TunedParameters : \E value \in ParameterValues(name) :
       SetParameter(name, value)
  \/ ResetParameters

\* C19 as stated: after every parameter mutation whose save does not fail
\* the stored blob decodes to the scene's current values of the persisted
\* parameters.
C19_BlobTracksParameters ==
  [][(scene /\ (DialogMutation \/ SceneMutation)) =>
       Decoded(thermalControls') = [f \in ControlFields |-> parameters'[f]]]_vars

\* C19: a slider handler and the dialog's reset store the dialog's controls,
\* so the blob decodes to exactly those; neither touches the scene's
\* parameters, and setParameter and resetParameters store nothing.
C19_DialogSavesControls ==
  [][/\ DialogMutation => /\ Decoded(thermalControls') = controls'.val
                          /\ parameters' = parameters
     /\ SceneMutation => thermalControls' = thermalControls]_vars

\* the dialog has stored a slider's new value while the scene still runs on
\* the value it loaded
C19_StoredAwayFromScene ==
  /\ scene /\ controls.exists
  /\ controls.val # ControlDefaults
  /\ Decoded(thermalControls) = controls.val
  /\ \E f \in ControlFields : parameters[f] # controls.val[f]

\* C20: when building the new shader variant fails during toggleDebugMode,
\* the mesh of the previous variant is still a child of the scene and neither
\* its geometry nor its material is disposed.
C20_FailedToggleKeepsMesh ==
  [][(OnTouchBuildFailure /\ heat.inScene /\ ~heat.disposed)
       => /\ heat'.variant = heat.variant
          /\ heat'.inScene
          /\ ~heat'.disposed]_vars

\* C21: when getContext("webgl2") returns null or throws, the set-up stops
\* there: no render driver, no scene and no frame callback come out of it.
C21_NoSetupWithoutContext ==
  [][\A vp \in Canvases, fail \in SetupFailures :
       (OnCanvasReady(vp, fail) /\ vp.context # "webgl2")
       => /\ ~appRenderer' /\ ~renderer'.exists
          /\ ~appScene' /\ ~scene'
          /\ pending' = 0]_vars

\* The set-up failures that are raised inside AppScene.init
InitFailures == {"drawRenderer", "video", "play"}

\* C22: when a step of AppScene.init raises an error, the error stays inside
\* init and the scene is left not ready: textureReady is false afterwards.
C22_FailedInitNotReady ==
  [][\A vp \in Canvases, fail \in InitFailures :
       OnCanvasReady(vp, fail) => ~textureReady']_vars

C24_UpdateThenTrailThenMain ==
  [][(FrameStep /\ renderer.onUpdate) =>
       LET calls == lastFrame'.calls
       IN  /\ Len(calls) >= 1
           /\ calls[1] \in {"update", "updateError"}
           /\ \A i \in 2..Len(calls) :
                calls[i] \in {"trail", "trailError", "main", "mainError"}
           /\ \A i \in DOMAIN calls :
                calls[i] \in {"main", "mainError"}
                => /\ i = Len(calls)
                   /\ drawRenderer.exists => (i = 3 /\ calls[2] = "trail")]_vars

\* a frame of a ready scene has run update, the trail pass and the main pass
C24_ReadyFrameDrawn ==
  /\ textureReady /\ animationTime > 0
  /\ lastFrame.calls = <<"update", "trail", "main">>

\* Base rates handed to lerpSpeed in update, in thousandths: touch position,
\* video blend, hold dampening
BaseRates == {800, 100, 10}

\* ceil(1 / r) for a rate in thousandths
SettleFrames(r) == (Milli + r - 1) \div r

\* A smoothed value n frames of 1/60 s after it started a whole unit below
\* its target, at base rate r
ApproachFrames[r \in BaseRates, n \in 0..100] ==
  IF n = 0 THEN 0
  ELSE LET previous == ApproachFrames[r, n - 1]
       IN  IF previous < 0 THEN previous
           ELSE lerp(previous, Scale, lerpSpeed(r, FrameTicks))

\* the distance left to the target after ceil(1 / r) frames
Remaining == [r \in BaseRates |-> Scale - ApproachFrames[r, SettleFrames(r)]]

\* the tolerance of the convergence test: 0.001
SmoothTolerance == Scale \div 1000

\* C25 as stated: at dt = 1/60 a smoothed value is within tolerance of its
\* target after ceil(1 / r) frames, for each base rate.
C25_SettledAfterCeilFrames ==
  frames >= 0 => \A r \in BaseRates : Remaining[r] <= SmoothTolerance

\* C25: a ready frame at dt = 1/60 closes the fraction r of the distance to
\* the target: 0.8 for the touch position, 0.1 for the video blend, 0.01 for
\* the hold dampening.  After ceil(1 / r) frames the distance is down to
\* (1 - r)^ceil(1 / r) of what it was: 4 % after 2 frames at 0.8, about 35 %
\* after 10 frames at 0.1, about 37 % after 100 frames at 0.01.
C25_FrameClosesRateOfDistance ==
  [][/\ (UpdateRan /\ lastFrame'.dt = FrameTicks) =>
          LET dx == touch.target.x - touch.position.x
              dy == touch.target.y - touch.position.y
              db == blendVideo.target - blendVideo.value
              dm == move'.target - move.value
          IN  /\ touch'.position.x = touch.position.x + Round(8 * dx, 10)
              /\ touch'.position.y = touch.position.y + Round(8 * dy, 10)
              /\ blendVideo'.value = blendVideo.value + Round(db, 10)
              /\ move'.value = move.value + Round(dm, 100)
     /\ Remaining[800] = (4 * Scale) \div 100
     /\ 100 * Remaining[100] > 34 * Scale /\ 100 * Remaining[100] < 36 * Scale
     /\ 100 * Remaining[10] > 36 * Scale /\ 100 * Remaining[10] < 38 * Scale]_vars

\* a ready frame at 1/60 s has moved the touch position four fifths of the
\* way to a target set by a touch, and has not reached it
C25_PositionPartWay ==
  /\ textureReady /\ frames > 0 /\ lastFrame.dt = FrameTicks
  /\ touch.target.x # 0
  /\ touch.position.x # touch.target.x
  /\ 5 * (touch.target.x - touch.position.x) = touch.target.x

\* the mesh this.heat refers to is the only heat mesh of the scene and is
\* built from the variant debugMode names
OneMeshFor(mesh, debug) ==
  /\ mesh.variant = IF debug THEN "debug" ELSE "normal"
  /\ mesh.inScene /\ ~mesh.disposed
  /\ mesh.leaked = 0

\* C26: a completed toggleDebugMode flips debugMode and leaves exactly one
\* heat mesh in the scene, of the variant debugMode names; the mesh it found
\* was removed from the scene and disposed before the new one was built.
\* Two toggles in a row bring debugMode back.
C26_ToggleLeavesOneMesh ==
  [][/\ \A pt \in TouchPoints :
          (/\ appScene /\ canvas.exists /\ drawRenderer.exists
           /\ IsDebugToggle("up", Normalize(pt[1], canvas.clientWidth),
                            Normalize(pt[2], canvas.clientHeight))
           /\ OnTouch("up", pt[1], pt[2]))
          => /\ debugMode' = ~debugMode
             /\ OneMeshFor(heat', debugMode')
     /\ (ToggleTwice /\ drawRenderer.exists)
          => /\ debugMode' = debugMode
             /\ OneMeshFor(heat', debugMode')]_vars

\* one completed toggle on a ready scene: the debug variant is in the scene
C26_DebugMeshInScene ==
  /\ textureReady /\ debugMode
  /\ OneMeshFor(heat, TRUE)

\* C27: after the scene's dispose() every resource the scene created is
\* released: the trail accumulator, the video texture, the mask texture, and
\* the material and geometry of the heat mesh.
C27_DisposeReleasesAll ==
  [][(SceneDispose \/ (NgOnDestroy /\ appScene)) =>
       /\ drawRenderer.exists => drawRenderer'.disposeCalls > 0
       /\ videoTexture.exists => videoTexture'.disposeCalls > 0
       /\ maskTexture.exists => maskTexture'.disposeCalls > 0
       /\ heat.variant # "none" => heat'.disposed
       /\ heat'.leaked = 0]_vars

\* C28: after resetParameters every one of the nine parameters has the
\* value it has in a freshly constructed scene.
C28_ResetRestoresConstructed ==
  [][ResetParameters =>
       \A name \in DOMAIN DefaultParameters :
         parameters'[name] = DefaultParameters[name]]_vars

\* C29: a touch event delivered between two frames writes only the touch
\* target, hold and the accumulator's sample point, or for a release in the
\* corner only debugMode and the heat mesh; heatUp, the smoothed position
\* and scalars, the clock and the parameters are left alone.  Each event
\* overwrites target and hold whatever they were, so the next update works
\* from those of the last event.
C29_TouchWritesTargetAndHoldOnly ==
  [][/\ \A e \in Actions, p \in TouchPoints :
          (appScene /\ canvas.exists /\ frames' = frames /\ OnTouch(e, p[1], p[2]))
          => /\ UNCHANGED <<heatUp, amount, move, blendVideo, animationTime,
                            parameters>>
             /\ touch'.position = touch.position
             /\ IF e = "up" /\ InCorner(p[1], p[2])
                THEN UNCHANGED <<touch, hold, drawRenderer, lastTouch>>
                ELSE /\ UNCHANGED <<debugMode, heat>>
                     /\ hold' = (e \in {"down", "move"})
                     /\ lastTouch' = IF hold' THEN "active" ELSE "inactive"
                     /\ touch'.target =
                          TouchTarget(Normalize(p[1], canvas.clientWidth),
                                      Normalize(p[2], canvas.clientHeight))
     /\ UpdateRan
          => /\ lastFrame'.held = hold
             /\ lastTouch = "active" => hold
             /\ lastTouch = "inactive" => ~hold
             /\ touch'.target = touch.target
             /\ touch'.position = VecLerp(touch.position, touch.target,
                                          lerpSpeed(800, lastFrame'.dt))]_vars

\* a release arrived after a held frame: the heat that frame built up is
\* untouched and the smoothed position has yet to follow the new target
C29_ReleaseBetweenFrames ==
  /\ frames > 0 /\ lastFrame.held
  /\ lastTouch = "inactive" /\ ~hold
  /\ heatUp > 0
  /\ touch.position # touch.target

\* C30: from the construction of the render driver on, exactly one frame
\* callback is pending with the host, whichever path the runs of loop took;
\* without a driver none is.
C30_OneCallbackPending ==
  IF renderer.exists THEN pending = 1 ELSE pending = 0

\* a run of loop found no scene set, returned early, and left one callback
\* pending
C30_PendingAfterEarlyReturn ==
  /\ renderer.exists /\ ~renderer.scene
  /\ frames > 0 /\ lastFrame.calls = <<>>
  /\ pending = 1

\* c lies between a and b
Between(a, c, b) == (a <= c /\ c <= b) \/ (b <= c /\ c <= a)

\* p lies in [-1, 1] x [-1, 1]
InBox(p) ==
  /\ 0 - Scale <= p.x /\ p.x <= Scale
  /\ 0 - Scale <= p.y /\ p.y <= Scale

\* C31: whatever dt a frame hands to update (zero, negative, or above
\* 1/30 s before the driver's cap), the factor lerpSpeed(0.8, dt) lies in
\* [0, 1]; the smoothed touch position ends on the segment between where it
\* was and the target, and stays in [-1, 1] x [-1, 1] for touches on the
\* canvas.
C31_PositionBetweenAndInBox ==
  [][/\ UpdateRan
          => LET t == lerpSpeed(800, lastFrame'.dt)
             IN  /\ 0 <= t /\ t <= Scale
                 /\ lastFrame'.dt <= 0 => t = 0
                 /\ touch'.position = VecLerp(touch.position, touch.target, t)
                 /\ Between(touch.position.x, touch'.position.x, touch.target.x)
                 /\ Between(touch.position.y, touch'.position.y, touch.target.y)
     /\ InBox(touch'.target) /\ InBox(touch'.position)]_vars

\* a press in the top-left corner followed by a frame after a stall: the
\* factor was clamped to 1 and the position is at the target (-1, 1)
C31_StalledFrameLandsOnTarget ==
  /\ textureReady /\ frames > 0
  /\ lastFrame.raw > DtCap /\ lastFrame.dt = DtCap
  /\ touch.target = [x |-> 0 - Scale, y |-> Scale]
  /\ touch.position = touch.target

\* C32: resetToDefaults sets every control to its built-in default, whatever
\* the dialog had loaded, and stores them (unless the store refuses the
\* write); a dialog or a scene constructed over the stored defaults has the
\* built-in defaults.
C32_ResetStoresBuiltInDefaults ==
  [][/\ \A stored \in BOOLEAN :
          ResetToDefaults(stored)
          => /\ controls'.val = ControlDefaults
             /\ stored => Decoded(thermalControls') = ControlDefaults
             /\ ~stored => thermalControls' = thermalControls
     /\ (thermalControls = saveControls(ControlDefaults) /\ ControlsOpen)
          => controls'.val = ControlDefaults
     /\ \A vp \in Viewports, fail \in ResizeFailures :
          (/\ thermalControls = saveControls(ControlDefaults)
           /\ OnCanvasReady(vp, fail) /\ scene')
          => parameters' = DefaultParameters]_vars

\* the dialog was reset over a scene that had loaded other values: the
\* controls and the stored blob are the built-in defaults
C32_ResetAfterLoadedValues ==
  /\ controls.exists
  /\ controls.val = ControlDefaults
  /\ thermalControls = saveControls(ControlDefaults)
  /\ scene /\ parameters.heatDecay # DefaultParameters.heatDecay

\* C33: a property assigned by the program (value, minValue, maxValue,
\* step) reports no native value change, whichever native call throws, and
\* leaves the flag cleared and the assigned property as assigned; a drag
\* that follows is reported as minValue + progress * step.
C33_SilentSetThenReportedDrag ==
  [][/\ \A property \in SliderProperties :
          \A v \in PropertyValues[property], fault \in SliderFaults :
            SetNative(property, v, fault)
            => /\ slider'.last.reported = 0
               /\ ~slider'.supress
               /\ slider'[property] = v
               /\ \A other \in SliderProperties \ {property} :
                    slider'[other] = slider[other]
     /\ \A progress \in DragProgress :
          Drag(progress)
          => /\ slider'.last.reported = 1
             /\ slider'.value = slider.minValue + progress * slider.step
     /\ ~slider'.supress]_vars

\* a property assignment made the SeekBar run its listener, and nothing
\* was reported
C33_ListenerRanUnreported ==
  /\ slider.owner /\ ~slider.supress
  /\ slider.last.listener > 0
  /\ slider.last.reported = 0
  /\ slider.max # 100

====
